---- MODULE Spec2Model ----
(***************************************************************************)
(* Model of scripts/analyze_xlsx_deep.py: the single pass over the rows of *)
(* the 'JCS' sheet (row classification, context cursor, unique-value sets, *)
(* per-job component records) followed by the purchase-order and the stock *)
(* availability analyses over the collected records.                       *)
(***************************************************************************)
EXTENDS Integers, Sequences, FiniteSets, TLC

\* ------------------------------------------------------------------------
\* Bounds of the model
\* ------------------------------------------------------------------------
\* Largest number of data rows of a sheet drawn from SheetRows.
MaxRow == 4
\* Largest number of data rows of a sheet drawn from QtyRows.
MaxQtyRows == 2
\* Largest quantity a cell of a sheet drawn from QtyRows holds.
MaxQty == 2

\* ------------------------------------------------------------------------
\* Cell values. openpyxl yields None, a str, a number or a datetime for a
\* cell; every value carries all three fields so that any two compare.
\* ------------------------------------------------------------------------
None == [kind |-> "none", s |-> "", n |-> 0]
Str(x) == [kind |-> "str", s |-> x, n |-> 0]
Num(k) == [kind |-> "num", s |-> "", n |-> k]
Date(d) == [kind |-> "date", s |-> "", n |-> d]

\* Python truthiness of a cell value, as tested by `if row[...]` and `or`:
\* None, the empty string and zero are false, everything else is true.
Truthy(c) ==
    \/ c.kind = "str" /\ c.s # ""
    \/ c.kind = "num" /\ c.n # 0
    \/ c.kind = "date"

\* `value or 0` on a quantity cell (None or a number): the number held.
OrZero(c) == IF Truthy(c) THEN c.n ELSE 0

\* str(value) of a cell, as applied to DATE_DUE_LINE.
PyStr(c) ==
    CASE c.kind = "str" -> Str(c.s)
      [] c.kind = "num" -> Str(ToString(c.n))
      [] c.kind = "date" -> Str(IF c.n = 1 THEN "2024-01-01 00:00:00"
                                           ELSE "2024-01-02 00:00:00")
      [] OTHER -> Str("None")

\* ------------------------------------------------------------------------
\* Rows. The row dict of the loop, restricted to the keys the script reads
\* (Text48, Auto_Date, SALESPERSON, PART_CUSTOMER, Text72, UM and
\* DATE_LAST_RECEIVED are stored in the dict and never read).
\* ------------------------------------------------------------------------
BlankRow ==
    [SALES_ORDER |-> None, MARK_INFO |-> None, CUSTOMER |-> None,
     CODE_SORT |-> None, JOB |-> None, COMPONENT |-> None,
     DESCRIPTION |-> None, QTY_COMMITTED |-> None, QTY_ISSUED |-> None,
     QTY_ONHAND |-> None, PURCHASE_ORDER |-> None, VENDOR |-> None,
     QTY_ORDER |-> None, QTY_RECEIVED |-> None, DATE_DUE_LINE |-> None]

\* Rows of mixed shapes: headers (with and without job, component and PO
\* cells), job rows, component rows with and without a purchase order and
\* with an empty-string purchase order and a zero vendor, and a row with
\* an empty mark that matches no branch.
SheetRows ==
    { [BlankRow EXCEPT !.MARK_INFO = Str("M1"), !.CUSTOMER = Str("ACME"),
                       !.SALES_ORDER = Str("SO1"), !.CODE_SORT = Str("A")],
      [BlankRow EXCEPT !.MARK_INFO = Str("M2"), !.CUSTOMER = Str("BETA"),
                       !.JOB = Str("J200"), !.COMPONENT = Str("C2"),
                       !.PURCHASE_ORDER = Str("PO78"), !.VENDOR = Str("V2")],
      [BlankRow EXCEPT !.JOB = Str("J100")],
      [BlankRow EXCEPT !.JOB = Str("J200"), !.CUSTOMER = Str("ACME"),
                       !.SALES_ORDER = Str("SO2"), !.COMPONENT = Str("C1")],
      [BlankRow EXCEPT !.COMPONENT = Str("C1"), !.QTY_COMMITTED = Num(2),
                       !.QTY_ONHAND = Num(1), !.SALES_ORDER = Str("SO3")],
      [BlankRow EXCEPT !.COMPONENT = Str("C2"), !.DESCRIPTION = Str("BOLT"),
                       !.PURCHASE_ORDER = Str("PO77"), !.VENDOR = Str("V1"),
                       !.QTY_ISSUED = Num(1), !.QTY_ORDER = Num(2),
                       !.QTY_RECEIVED = Num(2), !.DATE_DUE_LINE = Date(1)],
      [BlankRow EXCEPT !.COMPONENT = Str("C1"), !.PURCHASE_ORDER = Str(""),
                       !.VENDOR = Num(0), !.QTY_ORDER = Num(1),
                       !.MARK_INFO = Str("M1")],
      [BlankRow EXCEPT !.COMPONENT = Str("C3"), !.QTY_COMMITTED = Num(1),
                       !.QTY_ONHAND = Num(1)],
      [BlankRow EXCEPT !.MARK_INFO = Str(""), !.CUSTOMER = Str("ACME"),
                       !.SALES_ORDER = Str("SO2")] }

\* Quantity cells of the rows of QtyRows: absent, or 0 .. MaxQty.
QtyCells == {None} \cup {Num(k) : k \in 0..MaxQty}

\* A stock item and a purchased item with the given quantity cells.
StockRow(c, o) ==
    [BlankRow EXCEPT !.COMPONENT = Str("C1"), !.QTY_COMMITTED = c,
                     !.QTY_ONHAND = o]
PurchasedRow(c, o) ==
    [BlankRow EXCEPT !.COMPONENT = Str("C2"), !.PURCHASE_ORDER = Str("PO77"),
                     !.VENDOR = Str("V1"), !.QTY_ORDER = c, !.QTY_RECEIVED = o]

\* A header row, a job row, a blank row and component rows under every
\* combination of committed / on-hand (stock items) and of ordered /
\* received (purchased items) quantities, and the quantities 10, 4, 3, 5
\* and 20 in the combinations the documentation gives as examples.
QtyRows ==
    { [BlankRow EXCEPT !.MARK_INFO = Str("M1"), !.CUSTOMER = Str("ACME")],
      [BlankRow EXCEPT !.JOB = Str("J100")],
      BlankRow,
      StockRow(Num(10), Num(4)), StockRow(Num(3), Num(3)),
      StockRow(Num(0), Num(5)), StockRow(None, Num(5)),
      PurchasedRow(Num(10), Num(10)), PurchasedRow(Num(10), Num(4)),
      PurchasedRow(Num(10), Num(0)), PurchasedRow(Num(20), Num(20)) }
    \cup { StockRow(c, o) : c \in QtyCells, o \in QtyCells }
    \cup { PurchasedRow(c, o) : c \in QtyCells, o \in QtyCells }

\* All sheets of at most n data rows over a set of rows.
SheetsUpTo(S, n) == UNION { [1..k -> S] : k \in 0..n }

VARIABLES
    ws,                          \* data rows of the sheet (sheet rows 2..max_row)
    row_idx,                     \* the sheet row the loop processes next
    pc,                          \* "rows", "stock_analysis" or "done"
    customer_rows, job_rows, component_rows, other_rows,
    jobs, customers, sales_orders, components, vendors, po_numbers,
    code_sorts,                  \* Counter: CODE_SORT value -> count
    job_components,              \* defaultdict(list): job -> records
    current_customer, current_job, current_mark,
    total_components_with_po, total_components_stock,
    po_received_complete, po_partially_received, po_not_received,
    stock_sufficient, stock_shortage

context == <<current_customer, current_job, current_mark>>
row_counters == <<customer_rows, job_rows, component_rows, other_rows>>
unique_sets == <<jobs, customers, sales_orders, components, vendors, po_numbers>>
po_counters == <<total_components_with_po, total_components_stock,
                 po_received_complete, po_partially_received, po_not_received>>
stock_counters == <<stock_sufficient, stock_shortage>>
vars == <<ws, row_idx, pc, row_counters, unique_sets, code_sorts,
          job_components, context, po_counters, stock_counters>>

\* ws.max_row: the header row plus the data rows.
max_row == Len(ws) + 1

\* The row dict built for sheet row row_idx (the header row is row 1).
row == ws[row_idx - 1]

\* State after the tallies and the cursor are initialised (lines 11-28);
\* the analysis counters (lines 135-139, 163-164) do not exist yet and
\* are shown as 0.
Fresh ==
    /\ row_idx = 2
    /\ pc = "rows"
    /\ customer_rows = 0 /\ job_rows = 0
    /\ component_rows = 0 /\ other_rows = 0
    /\ jobs = {} /\ customers = {} /\ sales_orders = {}
    /\ components = {} /\ vendors = {} /\ po_numbers = {}
    /\ code_sorts = <<>>
    /\ job_components = <<>>
    /\ current_customer = None /\ current_job = None /\ current_mark = None
    /\ total_components_with_po = 0 /\ total_components_stock = 0
    /\ po_received_complete = 0 /\ po_partially_received = 0
    /\ po_not_received = 0
    /\ stock_sufficient = 0 /\ stock_shortage = 0

Init == ws \in SheetsUpTo(SheetRows, MaxRow) /\ Fresh

InitQty == ws \in SheetsUpTo(QtyRows, MaxQtyRows) /\ Fresh

\* ------------------------------------------------------------------------
\* The row loop (lines 30-102)
\* ------------------------------------------------------------------------
\* Classify with the job test ahead of the header test.
ClassifyJobFirst(r) ==
    IF Truthy(r.JOB) THEN "Job"
    ELSE IF Truthy(r.MARK_INFO) /\ Truthy(r.CUSTOMER) THEN "Header"
    ELSE IF Truthy(r.COMPONENT) THEN "Component"
    ELSE "Other"

\* The if / elif chain that selects the branch a row takes.
Classify(r) ==
    IF Truthy(r.MARK_INFO) /\ Truthy(r.CUSTOMER) THEN "Header"
    ELSE IF Truthy(r.JOB) THEN "Job"
    ELSE IF Truthy(r.COMPONENT) THEN "Component"
    ELSE "Other"

\* AddIfTruthy without its guard.
AddAlways(set, c) == set \cup {c}

\* set.add under an `if value:` guard.
AddIfTruthy(set, c) == IF Truthy(c) THEN set \cup {c} ELSE set

\* code_sorts[key] += 1 on a Counter.
CounterInc(counter, key) ==
    [k \in DOMAIN counter \cup {key} |->
        IF k = key
        THEN (IF k \in DOMAIN counter THEN counter[k] ELSE 0) + 1
        ELSE counter[k]]

\* Shortage without the clamp at zero.
ShortageUnclamped(qty_committed, qty_onhand) == qty_committed - qty_onhand

\* shortage of a component row.
Shortage(qty_committed, qty_onhand) ==
    IF qty_committed > qty_onhand THEN qty_committed - qty_onhand ELSE 0

\* has_po of a component row.
HasPO(r) == r.PURCHASE_ORDER # None

\* The dict appended to job_components[current_job].
ComponentRecord(r) ==
    [component |-> r.COMPONENT,
     description |-> r.DESCRIPTION,
     qty_committed |-> OrZero(r.QTY_COMMITTED),
     qty_issued |-> OrZero(r.QTY_ISSUED),
     qty_onhand |-> OrZero(r.QTY_ONHAND),
     has_po |-> HasPO(r),
     po |-> r.PURCHASE_ORDER,
     vendor |-> r.VENDOR,
     qty_ordered |-> r.QTY_ORDER,
     qty_received |-> r.QTY_RECEIVED,
     date_due |-> IF Truthy(r.DATE_DUE_LINE) THEN PyStr(r.DATE_DUE_LINE) ELSE None,
     shortage |-> Shortage(OrZero(r.QTY_COMMITTED), OrZero(r.QTY_ONHAND))]

\* AppendComponent inserting at the head of the list.
PrependComponent(jc, job, rec) ==
    [k \in DOMAIN jc \cup {job} |->
        IF k = job
        THEN <<rec>> \o (IF k \in DOMAIN jc THEN jc[k] ELSE <<>>)
        ELSE jc[k]]

\* job_components[job].append(rec) on a defaultdict(list).
AppendComponent(jc, job, rec) ==
    [k \in DOMAIN jc \cup {job} |->
        IF k = job
        THEN Append(IF k \in DOMAIN jc THEN jc[k] ELSE <<>>, rec)
        ELSE jc[k]]

\* HasCurrentJob with the guard dropped.
AlwaysCurrentJob(job) == TRUE

\* The `if current_job:` guard of the component branch.
HasCurrentJob(job) == Truthy(job)

AtRow == pc = "rows" /\ row_idx <= max_row

\* HeaderRow without the assignment to current_mark.
HeaderRowKeepsMark ==
    /\ AtRow /\ Classify(row) = "Header"
    /\ customer_rows' = customer_rows + 1
    /\ current_customer' = row.CUSTOMER
    /\ customers' = customers \cup {row.CUSTOMER}
    /\ sales_orders' = AddIfTruthy(sales_orders, row.SALES_ORDER)
    /\ code_sorts' = IF Truthy(row.CODE_SORT)
                     THEN CounterInc(code_sorts, row.CODE_SORT)
                     ELSE code_sorts
    /\ row_idx' = row_idx + 1
    /\ UNCHANGED <<ws, pc, job_rows, component_rows, other_rows, jobs,
                   components, vendors, po_numbers, job_components,
                   current_job, current_mark, po_counters, stock_counters>>

HeaderRow ==
    /\ AtRow /\ Classify(row) = "Header"
    /\ customer_rows' = customer_rows + 1
    /\ current_customer' = row.CUSTOMER
    /\ current_mark' = row.MARK_INFO
    /\ customers' = customers \cup {row.CUSTOMER}
    /\ sales_orders' = AddIfTruthy(sales_orders, row.SALES_ORDER)
    /\ code_sorts' = IF Truthy(row.CODE_SORT)
                     THEN CounterInc(code_sorts, row.CODE_SORT)
                     ELSE code_sorts
    /\ row_idx' = row_idx + 1
    /\ UNCHANGED <<ws, pc, job_rows, component_rows, other_rows, jobs,
                   components, vendors, po_numbers, job_components,
                   current_job, po_counters, stock_counters>>

JobRow ==
    /\ AtRow /\ Classify(row) = "Job"
    /\ job_rows' = job_rows + 1
    /\ current_job' = row.JOB
    /\ jobs' = jobs \cup {row.JOB}
    /\ row_idx' = row_idx + 1
    /\ UNCHANGED <<ws, pc, customer_rows, component_rows, other_rows,
                   customers, sales_orders, components, vendors, po_numbers,
                   code_sorts, job_components, current_customer,
                   current_mark, po_counters, stock_counters>>

ComponentRow ==
    /\ AtRow /\ Classify(row) = "Component"
    /\ component_rows' = component_rows + 1
    /\ components' = components \cup {row.COMPONENT}
    /\ vendors' = AddIfTruthy(vendors, row.VENDOR)
    /\ po_numbers' = AddIfTruthy(po_numbers, row.PURCHASE_ORDER)
    /\ job_components' =
          IF HasCurrentJob(current_job)
          THEN AppendComponent(job_components, current_job, ComponentRecord(row))
          ELSE job_components
    /\ row_idx' = row_idx + 1
    /\ UNCHANGED <<ws, pc, customer_rows, job_rows, other_rows, jobs,
                   customers, sales_orders, code_sorts, context,
                   po_counters, stock_counters>>

OtherRow ==
    /\ AtRow /\ Classify(row) = "Other"
    /\ other_rows' = other_rows + 1
    /\ row_idx' = row_idx + 1
    /\ UNCHANGED <<ws, pc, customer_rows, job_rows, component_rows,
                   unique_sets, code_sorts, job_components, context,
                   po_counters, stock_counters>>

\* ------------------------------------------------------------------------
\* The analyses over the collected records (lines 133-171)
\* ------------------------------------------------------------------------
\* POBucket without the `qty_ord > 0` test.
POBucketNoOrderTest(comp) ==
    LET qty_ord == OrZero(comp.qty_ordered)
        qty_rec == OrZero(comp.qty_received)
    IN  IF qty_rec >= qty_ord THEN "complete"
        ELSE IF qty_rec > 0 THEN "partial"
        ELSE "not_received"

\* The bucket of a purchased component (lines 145-152).
POBucket(comp) ==
    LET qty_ord == OrZero(comp.qty_ordered)
        qty_rec == OrZero(comp.qty_received)
    IN  IF qty_rec >= qty_ord /\ qty_ord > 0 THEN "complete"
        ELSE IF qty_rec > 0 THEN "partial"
        ELSE "not_received"

\* StockBucket with a strict comparison.
StockBucketStrict(comp) ==
    IF comp.qty_onhand > comp.qty_committed THEN "sufficient" ELSE "shortage"

\* The bucket of a stock component (lines 168-171).
StockBucket(comp) ==
    IF comp.qty_onhand >= comp.qty_committed THEN "sufficient" ELSE "shortage"

\* The (job, position) pairs of the records the nested loops visit.
CompSlots(jc) == UNION { { <<j, i>> : i \in 1..Len(jc[j]) } : j \in DOMAIN jc }

\* The record (comp) the nested loops visit at a slot.
CompAt(jc, sl) == jc[sl[1]][sl[2]]

IsPOComp(comp) == comp.has_po
IsComplete(comp) == comp.has_po /\ POBucket(comp) = "complete"
IsPartial(comp) == comp.has_po /\ POBucket(comp) = "partial"
IsNotReceived(comp) == comp.has_po /\ POBucket(comp) = "not_received"
IsSufficient(comp) == ~comp.has_po /\ StockBucket(comp) = "sufficient"
IsShortage(comp) == ~comp.has_po /\ StockBucket(comp) = "shortage"

\* Lines 135-154, entered when the row loop has run out of rows. The else
\* branch adds 0 to total_components_stock, which stays 0.
POAnalysis ==
    /\ pc = "rows" /\ row_idx > max_row
    /\ total_components_with_po' = Cardinality({ sl \in CompSlots(job_components) :
             IsPOComp(CompAt(job_components, sl)) })
    /\ total_components_stock' = 0
    /\ po_received_complete' = Cardinality({ sl \in CompSlots(job_components) :
             IsComplete(CompAt(job_components, sl)) })
    /\ po_partially_received' = Cardinality({ sl \in CompSlots(job_components) :
             IsPartial(CompAt(job_components, sl)) })
    /\ po_not_received' = Cardinality({ sl \in CompSlots(job_components) :
             IsNotReceived(CompAt(job_components, sl)) })
    /\ pc' = "stock_analysis"
    /\ UNCHANGED <<ws, row_idx, row_counters, unique_sets, code_sorts,
                   job_components, context, stock_counters>>

\* Lines 163-171.
StockAnalysis ==
    /\ pc = "stock_analysis"
    /\ stock_sufficient' = Cardinality({ sl \in CompSlots(job_components) :
             IsSufficient(CompAt(job_components, sl)) })
    /\ stock_shortage' = Cardinality({ sl \in CompSlots(job_components) :
             IsShortage(CompAt(job_components, sl)) })
    /\ pc' = "done"
    /\ UNCHANGED <<ws, row_idx, row_counters, unique_sets, code_sorts,
                   job_components, context, po_counters>>

Next ==
    \/ HeaderRow
    \/ JobRow
    \/ ComponentRow
    \/ OtherRow
    \/ POAnalysis
    \/ StockAnalysis

Spec == Init /\ [][Next]_vars

SpecQty == InitQty /\ [][Next]_vars

\* ------------------------------------------------------------------------
\* Properties
\* ------------------------------------------------------------------------
\* Number of data rows the loop has processed, and their positions in ws.
Processed == row_idx - 2
Done == 1..Processed

\* A cell is present when it is non-empty (neither None, "" nor 0).
Present(c) == c # None /\ c # Str("") /\ c # Num(0)

\* The documented precedence: Header, else Job, else Component, else Other.
IsHeader(r) == Present(r.MARK_INFO) /\ Present(r.CUSTOMER)
IsJob(r) == ~IsHeader(r) /\ Present(r.JOB)
IsComponent(r) == ~IsHeader(r) /\ ~Present(r.JOB) /\ Present(r.COMPONENT)
IsOther(r) == ~IsHeader(r) /\ ~Present(r.JOB) /\ ~Present(r.COMPONENT)

HeaderAt == { i \in Done : IsHeader(ws[i]) }
JobAt == { i \in Done : IsJob(ws[i]) }
ComponentAt == { i \in Done : IsComponent(ws[i]) }
OtherAt == { i \in Done : IsOther(ws[i]) }

\* The job id of the most recent Job row before position i, None if there
\* is none.
RECURSIVE JobBefore(_)
JobBefore(i) ==
    IF i <= 1 THEN None
    ELSE IF IsJob(ws[i - 1]) THEN ws[i - 1].JOB
    ELSE JobBefore(i - 1)

\* Component rows processed while a current job existed, and the orphans.
GroupedAt == { i \in ComponentAt : JobBefore(i) # None }
OrphanAt == { i \in ComponentAt : JobBefore(i) = None }

\* An absent quantity is taken as 0.
AbsentAsZero(c) == IF c = None THEN 0 ELSE c.n

Max(a, b) == IF a >= b THEN a ELSE b

\* The records of job j expected after the first n rows, in row order.
RECURSIVE RecordsOf(_, _)
RecordsOf(j, n) ==
    IF n = 0 THEN <<>>
    ELSE IF IsComponent(ws[n]) /\ JobBefore(n) = j
         THEN Append(RecordsOf(j, n - 1), ComponentRecord(ws[n]))
         ELSE RecordsOf(j, n - 1)

NumRecords == Cardinality(CompSlots(job_components))

\* C1: every processed row is counted in exactly one of the four row-type
\* counters, by the precedence Header, Job, Component, Other; the counters
\* sum to the number of rows processed.
C1_RowClassification ==
    /\ customer_rows = Cardinality(HeaderAt)
    /\ job_rows = Cardinality(JobAt)
    /\ component_rows = Cardinality(ComponentAt)
    /\ other_rows = Cardinality(OtherAt)
    /\ customer_rows + job_rows + component_rows + other_rows = Processed

\* C1 witness: a row with mark, customer and job all present has been
\* processed after a plain job row; only the plain one counts as a job.
C1_Witness ==
    /\ Processed >= 2
    /\ \E i \in Done : /\ Present(ws[i].MARK_INFO) /\ Present(ws[i].CUSTOMER)
                       /\ Present(ws[i].JOB)
    /\ job_rows = 1 /\ customer_rows = 1

\* C2: each job's list holds, in row order, the records of the Component
\* rows whose most recent preceding Job row carries that job id; the total
\* number of records is the number of Component rows processed under a
\* current job.
C2_RecordsUnderCurrentJob ==
    /\ DOMAIN job_components = { JobBefore(i) : i \in GroupedAt }
    /\ \A j \in DOMAIN job_components :
          job_components[j] = RecordsOf(j, Processed)
    /\ NumRecords = Cardinality(GroupedAt)
    /\ current_job = JobBefore(Processed + 1)

\* C2 witness: a job row, a component row, a header or other row and a
\* different component row; the job's list holds both records in row order.
C2_Witness ==
    /\ Processed = 4
    /\ IsJob(ws[1]) /\ IsComponent(ws[2]) /\ IsComponent(ws[4])
    /\ IsHeader(ws[3]) \/ IsOther(ws[3])
    /\ ws[2].COMPONENT # ws[4].COMPONENT
    /\ Len(job_components[ws[1].JOB]) = 2
    /\ job_components[ws[1].JOB][1].component = ws[2].COMPONENT

\* C3: a Header row sets current_customer and current_mark to its values,
\* a Job row sets current_job to its value, a Component or Other row
\* leaves the three context fields unchanged.
C3_ContextUpdates ==
    [][AtRow =>
        /\ IsHeader(row) => /\ current_customer' = row.CUSTOMER
                            /\ current_mark' = row.MARK_INFO
        /\ IsJob(row) => current_job' = row.JOB
        /\ (IsComponent(row) \/ IsOther(row)) => UNCHANGED context]_vars

\* C3 witness: a header row, a job row and then a component row have been
\* processed and the context still holds the header's and the job's values.
C3_Witness ==
    /\ Processed = 3
    /\ IsHeader(ws[1]) /\ IsJob(ws[2]) /\ IsComponent(ws[3])
    /\ current_customer = ws[1].CUSTOMER /\ current_mark = ws[1].MARK_INFO
    /\ current_job = ws[2].JOB

\* C4 as stated: every customer, job, sales order, component, vendor and
\* purchase order present on any processed row is in the corresponding set,
\* whatever branch the row took.
C4_SetsFromEveryRow ==
    \A i \in Done :
        /\ Present(ws[i].CUSTOMER) => ws[i].CUSTOMER \in customers
        /\ Present(ws[i].JOB) => ws[i].JOB \in jobs
        /\ Present(ws[i].SALES_ORDER) => ws[i].SALES_ORDER \in sales_orders
        /\ Present(ws[i].COMPONENT) => ws[i].COMPONENT \in components
        /\ Present(ws[i].VENDOR) => ws[i].VENDOR \in vendors
        /\ Present(ws[i].PURCHASE_ORDER) => ws[i].PURCHASE_ORDER \in po_numbers

\* C4 amended: each set holds exactly the values present on the rows of
\* the branch that feeds it: customers and sales orders from Header rows,
\* jobs from Job rows, components, vendors and purchase orders from
\* Component rows.
C4_SetsFromOwnBranch ==
    /\ customers = { ws[i].CUSTOMER : i \in HeaderAt }
    /\ sales_orders = { ws[i].SALES_ORDER :
                          i \in { h \in HeaderAt : Present(ws[h].SALES_ORDER) } }
    /\ jobs = { ws[i].JOB : i \in JobAt }
    /\ components = { ws[i].COMPONENT : i \in ComponentAt }
    /\ vendors = { ws[i].VENDOR :
                     i \in { c \in ComponentAt : Present(ws[c].VENDOR) } }
    /\ po_numbers = { ws[i].PURCHASE_ORDER :
                        i \in { c \in ComponentAt : Present(ws[c].PURCHASE_ORDER) } }

\* C4 witness: a Header row carrying a job id and a Component row carrying
\* a sales order have been processed after a Job row; neither value
\* entered its set.
C4_Witness ==
    /\ \E i \in HeaderAt : Present(ws[i].JOB) /\ ws[i].JOB \notin jobs
    /\ \E i \in ComponentAt : /\ Present(ws[i].SALES_ORDER)
                              /\ ws[i].SALES_ORDER \notin sales_orders
    /\ jobs # {}

\* C5: a Component row processed before any Job row yields no record in
\* any per-job list, while its component id, and its vendor and purchase
\* order when present, enter the unique sets and the row is counted.
C5_OrphanedComponents ==
    /\ \A i \in OrphanAt :
          /\ ws[i].COMPONENT \in components
          /\ Present(ws[i].VENDOR) => ws[i].VENDOR \in vendors
          /\ Present(ws[i].PURCHASE_ORDER) => ws[i].PURCHASE_ORDER \in po_numbers
    /\ JobAt = {} => job_components = <<>>
    /\ NumRecords + Cardinality(OrphanAt) = Cardinality(ComponentAt)
    /\ component_rows = Cardinality(ComponentAt)

\* C5 witness: an orphaned component row with a vendor and a purchase
\* order, then a job row and a component row: two component rows counted,
\* one record.
C5_Witness ==
    /\ Processed >= 3
    /\ IsComponent(ws[1]) /\ Present(ws[1].VENDOR)
    /\ Present(ws[1].PURCHASE_ORDER)
    /\ IsJob(ws[2]) /\ IsComponent(ws[3])
    /\ component_rows = 2 /\ NumRecords = 1
    /\ ws[1].PURCHASE_ORDER \in po_numbers

\* The five bucket counters.
BucketSum ==
    po_received_complete + po_partially_received + po_not_received
    + stock_sufficient + stock_shortage

\* C6 as stated: after the analyses the five bucket counters sum to the
\* number of Component-classified rows.
C6_BucketsCoverComponentRows ==
    pc = "done" => BucketSum = component_rows

\* C6 amended: every Component row processed under a current job is
\* counted in exactly one bucket: with a non-null purchase order in one of
\* the three PO buckets, otherwise as sufficient when onhand >= committed
\* and as shortage (recorded shortage > 0) when not; the five counters sum
\* to the number of such rows, and orphaned rows are in no bucket.
C6_BucketsCoverRecords ==
    LET poRows == { i \in GroupedAt : ws[i].PURCHASE_ORDER # None }
        stockRows == GroupedAt \ poRows
        enough(i) == AbsentAsZero(ws[i].QTY_ONHAND)
                       >= AbsentAsZero(ws[i].QTY_COMMITTED)
    IN  /\ pc \in {"stock_analysis", "done"} =>
              /\ po_received_complete + po_partially_received
                   + po_not_received = Cardinality(poRows)
              /\ total_components_with_po = Cardinality(poRows)
        /\ pc = "done" =>
              /\ stock_sufficient = Cardinality({ i \in stockRows : enough(i) })
              /\ stock_shortage = Cardinality({ i \in stockRows : ~enough(i) })
              /\ stock_shortage =
                    Cardinality({ sl \in CompSlots(job_components) :
                       /\ ~CompAt(job_components, sl).has_po
                       /\ CompAt(job_components, sl).shortage > 0 })
              /\ BucketSum = Cardinality(GroupedAt)

\* C6 witness: the analyses have run over a sheet with an orphaned
\* component row, a job row, a stock item short of its committed quantity
\* and a purchased item.
C6_Witness ==
    /\ pc = "done"
    /\ OrphanAt # {}
    /\ stock_sufficient = 0 /\ stock_shortage = 1
    /\ po_received_complete + po_partially_received + po_not_received = 1
    /\ component_rows = 3

\* The bucket the documentation assigns to an (ordered, received) pair.
DocPOBucket(ordered, received) ==
    IF received >= ordered /\ ordered > 0 THEN "fully_received"
    ELSE IF received > 0 THEN "partially_received"
    ELSE "not_received"

\* Purchased component rows processed under a current job whose ordered
\* and received cells fall in bucket b.
PORowsIn(b) ==
    { i \in GroupedAt :
        /\ ws[i].PURCHASE_ORDER # None
        /\ DocPOBucket(AbsentAsZero(ws[i].QTY_ORDER),
                       AbsentAsZero(ws[i].QTY_RECEIVED)) = b }

\* C7: every purchased component is counted in exactly the bucket its
\* (ordered, received) pair selects: fully_received iff received >= ordered
\* and ordered > 0, else partially_received iff received > 0, else
\* not_received; ordered = 0 is never fully_received.
C7_POBuckets ==
    pc \in {"stock_analysis", "done"} =>
        /\ po_received_complete = Cardinality(PORowsIn("fully_received"))
        /\ po_partially_received = Cardinality(PORowsIn("partially_received"))
        /\ po_not_received = Cardinality(PORowsIn("not_received"))
        /\ po_received_complete <=
              Cardinality({ i \in GroupedAt :
                              /\ ws[i].PURCHASE_ORDER # None
                              /\ AbsentAsZero(ws[i].QTY_ORDER) > 0 })

\* C7 witness: the PO analysis has run over a job row followed by a
\* purchased component with ordered = 0 and received = 0, counted as not
\* received.
C7_Witness ==
    /\ pc = "done" /\ Processed = 2
    /\ IsJob(ws[1]) /\ ws[2] = PurchasedRow(Num(0), Num(0))
    /\ po_not_received = 1 /\ po_received_complete = 0

\* C8: the shortage of the record of the row processed last is
\* max(committed - onhand, 0) with absent quantities taken as 0, and no
\* record's shortage is negative.
C8_Shortage ==
    /\ (Processed \in GroupedAt) =>
          LET recs == job_components[JobBefore(Processed)]
          IN  recs[Len(recs)].shortage =
                 Max(AbsentAsZero(ws[Processed].QTY_COMMITTED)
                       - AbsentAsZero(ws[Processed].QTY_ONHAND), 0)
    /\ \A sl \in CompSlots(job_components) :
          CompAt(job_components, sl).shortage >= 0

\* C8 witness: a component row with committed absent and onhand 2 has been
\* recorded under the current job with shortage 0.
C8_Witness ==
    /\ Processed = 2 /\ ws[1] = [BlankRow EXCEPT !.JOB = Str("J100")]
    /\ ws[2] = StockRow(None, Num(2))
    /\ job_components[Str("J100")][1].shortage = 0

\* C10: every key of the per-job map is in the jobs set, every record's
\* component id is in the components set, and every record with has_po
\* true has its PO number in the PO-numbers set.
C10_ReferentialIntegrity ==
    /\ DOMAIN job_components \subseteq jobs
    /\ \A sl \in CompSlots(job_components) :
          LET comp == CompAt(job_components, sl)
          IN  /\ comp.component \in components
              /\ comp.has_po => comp.po \in po_numbers

====
